---- MODULE Spec2Model ----
(***************************************************************************)
(* GROUPMSPU/groupwork: the Express handlers of src/app.js over the        *)
(* PostgreSQL schema of src/SHOPEASE.sql.                                  *)
(*                                                                         *)
(* Every handler issues exactly one pool.query(...) and then answers from  *)
(* its result.  PostgreSQL executes a single statement atomically, and the *)
(* process keeps no state between requests, so concurrent requests are     *)
(* exactly the interleavings of these atomic statements: one action per    *)
(* handler, taken in any order.                                            *)
(*                                                                         *)
(* Column values are options: NULL is the empty set, a value v is {v}.     *)
(* Identifiers range over INTEGER values, strings fit their VARCHAR        *)
(* columns and prices fit the magnitude of NUMERIC(10,2); a price may      *)
(* carry three decimals, so the column's rounding to two is modelled.      *)
(***************************************************************************)
EXTENDS Integers, FiniteSets

VARIABLES customers, products, products_seq, sales, sales_seq, last, sold

vars == <<customers, products, products_seq, sales, sales_seq, last, sold>>

\* Upper limits of the two SERIAL sequences explored by the model.
MaxProductSeq == 2
MaxSaleSeq == 2

NULL == {}
Val(v) == {v}

\* Identifiers a request may name (existing, deleted or never assigned).
ProductIds == 1 .. MaxProductSeq
SaleIds == 1 .. MaxSaleSeq

(***************************************************************************)
(* Decimal numbers, in thousandths: sign, integer part, fraction 0..999.   *)
(* A JSON price that is not a number ("abc") has numeric = FALSE.          *)
(***************************************************************************)
Dec(neg, whole, frac) == [numeric |-> TRUE, neg |-> neg, whole |-> whole, frac |-> frac]
NotANumber == [numeric |-> FALSE, neg |-> FALSE, whole |-> 0, frac |-> 0]

\* price NUMERIC(10, 2): round half away from zero to two decimals.
NumericScale2(d) ==
    LET cents == (d.frac + 5) \div 10
        whole == IF cents = 100 THEN d.whole + 1 ELSE d.whole
        frac  == IF cents = 100 THEN 0 ELSE cents * 10
    IN  [numeric |-> TRUE,
         neg     |-> d.neg /\ (whole # 0 \/ frac # 0),
         whole   |-> whole,
         frac    |-> frac]

\* The price column applied to a nullable parameter.
PriceColumn(p) == IF p = NULL THEN NULL ELSE {NumericScale2(d) : d \in p}

\* A text parameter that PostgreSQL cannot read as numeric fails the statement.
PriceParamError(p) == \E d \in p : ~d.numeric

(***************************************************************************)
(* The store as provisioned: the schema, one customer and one stocked      *)
(* product.  No route creates a customer or writes stock_quantity, so      *)
(* these rows can only come from outside the service.                      *)
(***************************************************************************)
SeedCustomers == {1}
SeedProduct ==
    [product_id     |-> 1,
     product_name   |-> Val("Laptop"),
     price          |-> Val(Dec(FALSE, 1200, 0)),
     category       |-> Val("Electronics"),
     description    |-> NULL,
     stock_quantity |-> Val(10)]

\* Request bodies of POST/PUT /products (stock_quantity is sent, never read).
ProductBody(n, p, c, s) ==
    [product_name |-> n, price |-> p, category |-> c, stock_quantity |-> s]
ProductBodies ==
    { ProductBody(Val("Laptop"), Val(Dec(FALSE, 1200, 0)), Val("Electronics"), Val(5)),
      ProductBody(Val("Laptop"), Val(Dec(FALSE, 9, 995)),  Val("Electronics"), Val(10)),
      ProductBody(Val("Laptop"), Val(NotANumber),          Val("Electronics"), NULL),
      ProductBody(NULL,          Val(Dec(TRUE, 5, 0)),     Val(""),            NULL) }

\* Request bodies of POST/PUT /sales.
SaleBody(c, p, q) == [customer_id |-> c, product_id |-> p, quantity |-> q]
SaleBodies ==
    { SaleBody(Val(1), Val(1), Val(6)),
      SaleBody(Val(2), Val(1), Val(6)),
      SaleBody(Val(1), NULL,   Val(2)) }

NoBody == [none |-> TRUE]

\* The request last answered and its response: status, the rows the query
\* returned (the body is rows, or rows[0]) and the error message.
Response(op, id, body, status, rows, error) ==
    [op |-> op, id |-> id, body |-> body, status |-> status, rows |-> rows, error |-> error]

Rows(table) == {table[i] : i \in DOMAIN table}

Init ==
    /\ customers = SeedCustomers
    /\ products = [i \in {SeedProduct.product_id} |-> SeedProduct]
    /\ products_seq = SeedProduct.product_id
    /\ sales = [i \in {} |-> NoBody]
    /\ sales_seq = 0
    /\ last = Response("none", NULL, NoBody, 0, {}, "")
    /\ sold = [i \in ProductIds |-> 0]

(***************************************************************************)
(* The statements.  Each yields the query's outcome: err (the promise      *)
(* rejects), rows (RETURNING * / SELECT), rowCount, and the database as    *)
(* the statement leaves it.  A failed statement changes no table; nextval  *)
(* is not undone when the inserted row then fails a foreign key.           *)
(***************************************************************************)
Database(p, pseq, s, sseq) ==
    [products |-> p, products_seq |-> pseq, sales |-> s, sales_seq |-> sseq]

Current == Database(products, products_seq, sales, sales_seq)

QueryResult(err, rows, rowCount, db) ==
    [err |-> err, rows |-> rows, rowCount |-> rowCount, db |-> db]

Rejected(db) == QueryResult(TRUE, {}, 0, db)

\* SELECT * FROM products
SelectProducts == QueryResult(FALSE, Rows(products), Cardinality(DOMAIN products), Current)

\* SELECT * FROM products WHERE product_id = $1
SelectProduct(product_id) ==
    LET rows == {r \in Rows(products) : r.product_id = product_id}
    IN  QueryResult(FALSE, rows, Cardinality(rows), Current)

\* INSERT INTO products (product_name, price, category) VALUES ($1, $2, $3) RETURNING *
\* product_id takes nextval of its SERIAL sequence; description and
\* stock_quantity have no default and are stored NULL.
InsertProduct(product_name, price, category) ==
    IF PriceParamError(price)
    THEN Rejected(Current)
    ELSE LET id  == products_seq + 1
             row == [product_id     |-> id,
                     product_name   |-> product_name,
                     price          |-> PriceColumn(price),
                     category       |-> category,
                     description    |-> NULL,
                     stock_quantity |-> NULL]
         IN  QueryResult(FALSE, {row}, 1,
                         Database([i \in DOMAIN products \cup {id} |->
                                      IF i = id THEN row ELSE products[i]],
                                  id, sales, sales_seq))

\* WHERE product_id = $4 (UPDATE), WHERE product_id = $1 (DELETE)
ProductWhere(product_id) == {i \in DOMAIN products : i = product_id}

\* Mutant of ProductSet: a full replacement that writes every column, leaving
\* the ones the request does not carry NULL.
ProductSetEveryColumn(row, product_name, price, category) ==
    [row EXCEPT !.product_name   = product_name,
                !.price          = PriceColumn(price),
                !.category       = category,
                !.description    = NULL,
                !.stock_quantity = NULL]

\* SET product_name = $1, price = $2, category = $3
ProductSet(row, product_name, price, category) ==
    [row EXCEPT !.product_name = product_name,
                !.price        = PriceColumn(price),
                !.category     = category]

\* UPDATE products SET ... WHERE product_id = $4 RETURNING *
UpdateProduct(product_name, price, category, product_id) ==
    IF PriceParamError(price)
    THEN Rejected(Current)
    ELSE LET hit == ProductWhere(product_id)
             new == [i \in DOMAIN products |->
                        IF i \in hit
                        THEN ProductSet(products[i], product_name, price, category)
                        ELSE products[i]]
         IN  QueryResult(FALSE, {new[i] : i \in hit}, Cardinality(hit),
                         Database(new, products_seq, sales, sales_seq))

\* sales.product_id INTEGER REFERENCES products(product_id): with no ON DELETE
\* clause a referenced product cannot be deleted.  (orders and order_items
\* reference products too; no route writes them and they stay empty.)
ProductReferenced(product_id) ==
    \E s \in Rows(sales) : product_id \in s.product_id

\* DELETE FROM products WHERE product_id = $1
DeleteProduct(product_id) ==
    LET hit == ProductWhere(product_id)
    IN  IF \E i \in hit : ProductReferenced(i)
        THEN Rejected(Current)
        ELSE QueryResult(FALSE, {}, Cardinality(hit),
                         Database([i \in DOMAIN products \ hit |-> products[i]],
                                  products_seq, sales, sales_seq))

\* SELECT * FROM sales
SelectSales == QueryResult(FALSE, Rows(sales), Cardinality(DOMAIN sales), Current)

\* SELECT * FROM sales WHERE sale_id = $1
SelectSale(sale_id) ==
    LET rows == {r \in Rows(sales) : r.sale_id = sale_id}
    IN  QueryResult(FALSE, rows, Cardinality(rows), Current)

\* customer_id INTEGER REFERENCES customers(customer_id),
\* product_id INTEGER REFERENCES products(product_id): a NULL satisfies a
\* foreign key, any other value must name a stored row.
SaleForeignKeysHold(customer_id, product_id) ==
    /\ customer_id \subseteq customers
    /\ product_id \subseteq DOMAIN products

\* INSERT INTO sales (customer_id, product_id, quantity) VALUES ($1, $2, $3) RETURNING *
\* sale_id takes nextval; timestamp has no default and is stored NULL.
InsertSale(customer_id, product_id, quantity) ==
    LET id  == sales_seq + 1
        row == [sale_id     |-> id,
                customer_id |-> customer_id,
                product_id  |-> product_id,
                quantity    |-> quantity,
                timestamp   |-> NULL]
    IN  IF SaleForeignKeysHold(customer_id, product_id)
        THEN QueryResult(FALSE, {row}, 1,
                         Database(products, products_seq,
                                  [i \in DOMAIN sales \cup {id} |->
                                      IF i = id THEN row ELSE sales[i]],
                                  id))
        ELSE Rejected(Database(products, products_seq, sales, id))

\* WHERE sale_id = $4 (UPDATE), WHERE sale_id = $1 (DELETE)
SaleWhere(sale_id) == {i \in DOMAIN sales : i = sale_id}

\* SET customer_id = $1, product_id = $2, quantity = $3
SaleSet(row, customer_id, product_id, quantity) ==
    [row EXCEPT !.customer_id = customer_id,
                !.product_id  = product_id,
                !.quantity    = quantity]

\* UPDATE sales SET ... WHERE sale_id = $4 RETURNING *
UpdateSale(customer_id, product_id, quantity, sale_id) ==
    LET hit == SaleWhere(sale_id)
        new == [i \in DOMAIN sales |->
                   IF i \in hit
                   THEN SaleSet(sales[i], customer_id, product_id, quantity)
                   ELSE sales[i]]
    IN  IF hit # {} /\ ~SaleForeignKeysHold(customer_id, product_id)
        THEN Rejected(Current)
        ELSE QueryResult(FALSE, {new[i] : i \in hit}, Cardinality(hit),
                         Database(products, products_seq, new, sales_seq))

\* Mutant of DeleteSale: the deleted sale's quantity is put back in stock.
DeleteSaleRestock(sale_id) ==
    LET hit     == SaleWhere(sale_id)
        back(i) == UNION {sales[j].quantity : j \in {k \in hit : i \in sales[k].product_id}}
    IN  QueryResult(FALSE, {}, Cardinality(hit),
                    Database([i \in DOMAIN products |->
                                 IF back(i) = {}
                                 THEN products[i]
                                 ELSE [products[i] EXCEPT !.stock_quantity =
                                          {k + n : k \in @, n \in back(i)}]],
                             products_seq,
                             [i \in DOMAIN sales \ hit |-> sales[i]],
                             sales_seq))

\* DELETE FROM sales WHERE sale_id = $1
DeleteSale(sale_id) ==
    LET hit == SaleWhere(sale_id)
    IN  QueryResult(FALSE, {}, Cardinality(hit),
                    Database(products, products_seq,
                             [i \in DOMAIN sales \ hit |-> sales[i]],
                             sales_seq))

(***************************************************************************)
(* The responses.                                                          *)
(***************************************************************************)
InternalServerError == "Internal server error"

\* catch (err) { res.status(500).json({ error: 'Internal server error' }) }
Caught(op, id, body) == Response(op, id, body, 500, {}, InternalServerError)

\* res.json(rows)
Listed(op, q) ==
    IF q.err THEN Caught(op, NULL, NoBody)
    ELSE Response(op, NULL, NoBody, 200, q.rows, "")

\* if (rows.length === 0) return res.status(404)...; res.json(rows[0])
RowOr404(op, id, body, q, what) ==
    IF q.err THEN Caught(op, id, body)
    ELSE IF Cardinality(q.rows) = 0
         THEN Response(op, id, body, 404, {}, what)
         ELSE Response(op, id, body, 200, q.rows, "")

\* Mutant of DeletedOr404: rowCount is not looked at.
DeletedAlways204(op, id, q, what) ==
    IF q.err THEN Caught(op, id, NoBody)
    ELSE Response(op, id, NoBody, 204, {}, "")

\* if (result.rowCount === 0) return res.status(404)...; res.sendStatus(204)
DeletedOr404(op, id, q, what) ==
    IF q.err THEN Caught(op, id, NoBody)
    ELSE IF q.rowCount = 0
         THEN Response(op, id, NoBody, 404, {}, what)
         ELSE Response(op, id, NoBody, 204, {}, "")

\* res.status(201).json(rows[0])
Created(op, body, q) ==
    IF q.err THEN Caught(op, NULL, body)
    ELSE Response(op, NULL, body, 201, q.rows, "")

\* History (kept under SpecCounted only): the quantity sold per product by the
\* sales POST /sales answered 201 for.
Sold(resp) ==
    [i \in ProductIds |->
        IF resp.status = 201 /\ i \in resp.body.product_id /\ resp.body.quantity # NULL
        THEN sold[i] + (CHOOSE n \in resp.body.quantity : TRUE)
        ELSE sold[i]]

\* The database after the handler's one statement.
Commit(q) ==
    /\ products' = q.db.products
    /\ products_seq' = q.db.products_seq
    /\ sales' = q.db.sales
    /\ sales_seq' = q.db.sales_seq
    /\ UNCHANGED customers

(***************************************************************************)
(* The handlers.                                                           *)
(***************************************************************************)
\* GET /products
listProducts ==
    LET q == SelectProducts
    IN  /\ Commit(q)
        /\ last' = Listed("listProducts", q)
        /\ UNCHANGED sold

\* GET /products/:product_id
getProduct ==
    \E product_id \in ProductIds :
        LET q == SelectProduct(product_id)
        IN  /\ Commit(q)
            /\ last' = RowOr404("getProduct", Val(product_id), NoBody, q,
                                "Product not found")
            /\ UNCHANGED sold

\* POST /products
createProduct ==
    \E body \in ProductBodies :
        LET q == InsertProduct(body.product_name, body.price, body.category)
        IN  /\ products_seq < MaxProductSeq
            /\ Commit(q)
            /\ last' = Created("createProduct", body, q)
            /\ UNCHANGED sold

\* PUT /products/:product_id
updateProduct ==
    \E product_id \in ProductIds, body \in ProductBodies :
        LET q == UpdateProduct(body.product_name, body.price, body.category, product_id)
        IN  /\ Commit(q)
            /\ last' = RowOr404("updateProduct", Val(product_id), body, q,
                                "Product not found")
            /\ UNCHANGED sold

\* DELETE /products/:product_id
deleteProduct ==
    \E product_id \in ProductIds :
        LET q == DeleteProduct(product_id)
        IN  /\ Commit(q)
            /\ last' = DeletedOr404("deleteProduct", Val(product_id), q,
                                    "Product not found")
            /\ UNCHANGED sold

\* GET /sales
listSales ==
    LET q == SelectSales
    IN  /\ Commit(q)
        /\ last' = Listed("listSales", q)
        /\ UNCHANGED sold

\* GET /sales/:sale_id
getSale ==
    \E sale_id \in SaleIds :
        LET q == SelectSale(sale_id)
        IN  /\ Commit(q)
            /\ last' = RowOr404("getSale", Val(sale_id), NoBody, q, "Sale not found")
            /\ UNCHANGED sold

\* POST /sales
postSales(body) ==
    LET q == InsertSale(body.customer_id, body.product_id, body.quantity)
    IN  /\ sales_seq < MaxSaleSeq
        /\ Commit(q)
        /\ last' = Created("createSale", body, q)

createSale ==
    \E body \in SaleBodies :
        /\ postSales(body)
        /\ UNCHANGED sold

\* POST /sales, with the history of what it sold kept.
createSaleCounted ==
    \E body \in SaleBodies :
        /\ postSales(body)
        /\ sold' = Sold(last')

\* PUT /sales/:sale_id
updateSale ==
    \E sale_id \in SaleIds, body \in SaleBodies :
        LET q == UpdateSale(body.customer_id, body.product_id, body.quantity, sale_id)
        IN  /\ Commit(q)
            /\ last' = RowOr404("updateSale", Val(sale_id), body, q, "Sale not found")
            /\ UNCHANGED sold

\* DELETE /sales/:sale_id
deleteSale ==
    \E sale_id \in SaleIds :
        LET q == DeleteSale(sale_id)
        IN  /\ Commit(q)
            /\ last' = DeletedOr404("deleteSale", Val(sale_id), q, "Sale not found")
            /\ UNCHANGED sold

Next ==
    \/ listProducts
    \/ getProduct
    \/ createProduct
    \/ updateProduct
    \/ deleteProduct
    \/ listSales
    \/ getSale
    \/ createSale
    \/ updateSale
    \/ deleteSale

Spec == Init /\ [][Next]_vars

\* The same handlers, with the history variable sold maintained.
NextCounted ==
    \/ listProducts
    \/ getProduct
    \/ createProduct
    \/ updateProduct
    \/ deleteProduct
    \/ listSales
    \/ getSale
    \/ createSaleCounted
    \/ updateSale
    \/ deleteSale

SpecCounted == Init /\ [][NextCounted]_vars

(***************************************************************************)
(* Properties.                                                             *)
(***************************************************************************)
\* The value of a decimal, in thousandths.
Milli(d) == (IF d.neg THEN 0 - 1 ELSE 1) * (d.whole * 1000 + d.frac)

\* Shape rules the specification gives for product fields: required
\* non-empty strings, numeric non-negative numbers.
NonEmptyText(t) == t # NULL /\ t # Val("")
NonNegativePrice(p) == p # NULL /\ \A d \in p : d.numeric /\ ~d.neg
NonNegativeInteger(n) == n # NULL /\ \A k \in n : k >= 0
ValidProductFields(body) ==
    /\ NonEmptyText(body.product_name)
    /\ NonEmptyText(body.category)
    /\ NonNegativePrice(body.price)
    /\ NonNegativeInteger(body.stock_quantity)

SeedStock == CHOOSE n \in SeedProduct.stock_quantity : TRUE

\* C1: every stored Product has a stock_quantity, and it is >= 0.
C1_StockNonNegative ==
    \A r \in Rows(products) : NonNegativeInteger(r.stock_quantity)

\* C2: the createSale calls that succeed against one product never sell more
\* than its stock: of two createSale(quantity = 6) against a stock of 10 only
\* one is answered 201.
C2_NoOversell ==
    sold[SeedProduct.product_id] <= SeedStock

\* C3: a createSale call inserts exactly one Sale row and decrements the
\* referenced Product's stock_quantity by the sale's quantity, or it changes
\* neither table.
C3_SaleInsertsAndDecrements ==
    [][last'.op = "createSale" =>
        \/ /\ sales' = sales
           /\ products' = products
        \/ /\ Cardinality(DOMAIN sales' \ DOMAIN sales) = 1
           /\ \A i \in DOMAIN sales : i \in DOMAIN sales' /\ sales'[i] = sales[i]
           /\ \E p \in DOMAIN products, n \in last'.body.quantity :
                /\ Val(p) = last'.body.product_id
                /\ products[p].stock_quantity # NULL
                /\ products' = [products EXCEPT ![p].stock_quantity = {k - n : k \in @}]
      ]_vars

\* C4: createSale naming a product or a customer that does not exist is
\* answered NotFound (404) and leaves sales and products unchanged.
C4_UnknownReferenceNotFound ==
    [][(/\ last'.op = "createSale"
        /\ \/ ~(last'.body.product_id \subseteq DOMAIN products)
           \/ ~(last'.body.customer_id \subseteq customers))
       => /\ last'.status = 404
          /\ sales' = sales
          /\ products' = products
      ]_vars

\* C5: every stored Sale's product_id names a stored Product.
C5_NoOrphanSale ==
    \A s \in Rows(sales) :
        /\ s.product_id # NULL
        /\ s.product_id \subseteq DOMAIN products

\* C6: after createProduct of valid fields, getProduct of the returned identity
\* answers a row holding every supplied field (name, price, category,
\* stock_quantity), and that identity belongs to no other row.
C6_CreateThenGet ==
    (last.op = "createProduct" /\ ValidProductFields(last.body)) =>
        /\ last.status = 201
        /\ \A r \in last.rows :
             /\ Cardinality({i \in DOMAIN products : products[i].product_id = r.product_id}) = 1
             /\ \A g \in SelectProduct(r.product_id).rows :
                  /\ g.product_id = r.product_id
                  /\ g.product_name = last.body.product_name
                  /\ g.price = last.body.price
                  /\ g.category = last.body.category
                  /\ g.stock_quantity = last.body.stock_quantity
             /\ SelectProduct(r.product_id).rows # {}

\* The request just answered was op on this product id (for updateProduct,
\* with fields that pass validation).
C7Call(op, id) ==
    /\ last'.op = op
    /\ last'.id = Val(id)
    /\ op = "updateProduct" => ValidProductFields(last'.body)

C7MissingId ==
    \A id \in ProductIds \ DOMAIN products :
    \A op \in {"getProduct", "updateProduct", "deleteProduct"} :
        C7Call(op, id) =>
            /\ last'.status = 404
            /\ products' = products
            /\ sales' = sales

C7GetExisting ==
    \A id \in DOMAIN products :
        C7Call("getProduct", id) =>
            /\ last'.status = 200
            /\ last'.rows = {products[id]}
            /\ products' = products
            /\ sales' = sales

C7Removed(id) ==
    /\ last'.status = 204
    /\ products' = [i \in DOMAIN products \ {id} |-> products[i]]
    /\ sales' = sales

C8Call(id) ==
    /\ last'.op = "updateProduct"
    /\ last'.id = Val(id)
    /\ last'.body.product_name = products[id].product_name
    /\ last'.body.category = products[id].category
    /\ NonNegativePrice(last'.body.price)
    /\ last'.body.price # products[id].price

\* getProduct(id) after the step answers the row of before the step with its
\* price replaced by one that satisfies Price, and nothing else changed.
C8Effect(id, Price(_)) ==
    /\ last'.status = 200
    /\ DOMAIN products' = DOMAIN products
    /\ \A g \in (SelectProduct(id).rows)' :
         /\ Price(g.price)
         /\ g = [products[id] EXCEPT !.price = g.price]
    /\ (SelectProduct(id).rows)' # {}
    /\ \A i \in DOMAIN products \ {id} : products'[i] = products[i]
    /\ sales' = sales

\* C8 as stated: the price read back is the new price.
C8_PriceOnly ==
    [][\A id \in DOMAIN products :
         C8Call(id) => LET IsNew(p) == p = last'.body.price IN C8Effect(id, IsNew)
      ]_vars

\* C8 amended: the price read back is the new price rounded to two decimals
\* (half away from zero).
C8_PriceOnlyRounded ==
    [][\A id \in DOMAIN products :
         C8Call(id) =>
            LET IsRounded(p) ==
                    \A d \in p, n \in last'.body.price :
                        /\ Milli(d) % 10 = 0
                        /\ Milli(d) - 5 <= Milli(n)
                        /\ Milli(n) < Milli(d) + 5
                        /\ p # NULL
            IN  C8Effect(id, IsRounded)
      ]_vars

\* C8 happens: the stocked product was given the price 9.995 and now reads
\* 10.00, with its stock of before.
C8_Witness ==
    /\ last.op = "updateProduct"
    /\ last.status = 200
    /\ last.body.price = Val(Dec(FALSE, 9, 995))
    /\ \E r \in last.rows :
         /\ r = [SeedProduct EXCEPT !.price = Val(Dec(FALSE, 10, 0))]
         /\ products[r.product_id] = r

\* C9: updateProduct of an existing product with fields that fail validation
\* is answered ValidationError (400) and leaves the stored row unchanged.
C9_InvalidUpdateRejected ==
    [][\A id \in DOMAIN products :
         (/\ last'.op = "updateProduct"
          /\ last'.id = Val(id)
          /\ ~ValidProductFields(last'.body))
         => /\ last'.status = 400
            /\ products' = products
      ]_vars

\* C10: updateSale and deleteSale leave the stock_quantity of every product
\* as it was, whether they answer 200/204 or 404.
C10_SaleUpdateDeleteKeepStock ==
    [][last'.op \in {"updateSale", "deleteSale"} =>
         /\ DOMAIN products' = DOMAIN products
         /\ \A i \in DOMAIN products :
              products'[i].stock_quantity = products[i].stock_quantity
      ]_vars

\* C10 happens: a stored sale was deleted, and the stocked product still shows
\* the stock it had.
C10_Witness ==
    /\ last.op = "deleteSale"
    /\ last.status = 204
    /\ SeedProduct.product_id \in DOMAIN products
    /\ products[SeedProduct.product_id].stock_quantity = SeedProduct.stock_quantity

====
